---- MODULE Spec2Model ----
(***************************************************************************)
(* Model of the directory node of web-fs (WebFsDirectoryHandle) over a     *)
(* host-provided directory tree.                                           *)
(*                                                                         *)
(* Strings are sequences of one-character strings, so that splitting,      *)
(* joining and matching are computed character by character.  A host       *)
(* entry is identified by its path: the sequence of names leading to it    *)
(* from the directory the node wraps (the empty sequence is that           *)
(* directory itself).                                                      *)
(***************************************************************************)
EXTENDS Integers, Sequences, FiniteSets, TLC

VARIABLES fs, res, wr, hs

vars == <<fs, res, wr, hs>>

(***************************************************************************)
(* Bounds of the model.                                                    *)
(***************************************************************************)
\* segments of a path given to file, dir, createFile, createDir, remove
MaxPathSegs == 3
\* entries of the tree those operations build
MaxEntries == 4
\* depth and entries of the static trees that are searched and listed
MaxTreeDepth == 2
MaxTreeEntries == 4
\* segments of a glob pattern
MaxPatSegs == 2
\* the depth option of tree, names, list
MaxOptDepth == 2
\* characters of the content of the file that is written
MaxContent == 3

(***************************************************************************)
(* Strings.                                                                *)
(***************************************************************************)
SEP == <<"/">>

\* String.prototype.split('/'): the segments between separators; the empty
\* string splits into one empty segment.
RECURSIVE Split(_)
Split(s) ==
    IF s = <<>> THEN << <<>> >>
    ELSE LET rest == Split(Tail(s))
         IN  IF Head(s) = "/"
             THEN << <<>> >> \o rest
             ELSE << <<Head(s)>> \o Head(rest) >> \o Tail(rest)

\* Array.prototype.join('/')
RECURSIVE Join(_)
Join(segs) ==
    IF segs = <<>> THEN <<>>
    ELSE IF Len(segs) = 1 THEN segs[1]
    ELSE segs[1] \o SEP \o Join(Tail(segs))

\* All sequences over S of length 1..n
RECURSIVE SeqsUpTo(_, _)
SeqsUpTo(S, n) ==
    IF n = 0 THEN {}
    ELSE LET shorter == SeqsUpTo(S, n - 1)
         IN  {<<x>> : x \in S} \cup shorter
             \cup {Append(q, x) : q \in shorter, x \in S}

Front(s) == SubSeq(s, 1, Len(s) - 1)
Last(s) == s[Len(s)]
Range(s) == {s[i] : i \in 1..Len(s)}

(***************************************************************************)
(* The host directory tree (the host entry provider).  fs records the      *)
(* paths of the existing files and of the existing directories below the   *)
(* directory the node wraps.  HostOrder is the order in which the host     *)
(* enumerates names.  bad is the set of entries on which the host faults   *)
(* during one operation: any host call that addresses one of them raises.  *)
(***************************************************************************)
HostOrder == << <<"a">>, <<"b">> >>
Names == Range(HostOrder)

ROOT == <<>>
EmptyFs == [files |-> {}, dirs |-> {}]

Exists(f, p) == p \in f.files \/ p \in f.dirs
IsDir(f, p) == p = ROOT \/ p \in f.dirs
IsFile(f, p) == p \in f.files
Entries(f) == f.files \cup f.dirs

IsPrefix(p, q) == Len(p) <= Len(q) /\ SubSeq(q, 1, Len(p)) = p

\* FileSystemHandle.name / FileSystemHandle.kind
NameOf(p) == IF p = ROOT THEN <<"r">> ELSE Last(p)
KindOf(f, p) == IF IsFile(f, p) THEN "file" ELSE "directory"

\* FileSystemDirectoryHandle.values(): the children of cd in host order
Values(f, cd) ==
    LET present == SelectSeq(HostOrder, LAMBDA n : Exists(f, Append(cd, n)))
    IN  [i \in 1..Len(present) |-> Append(cd, present[i])]

\* A name the host accepts for a child entry
ValidName(n) ==
    n # <<>> /\ n # <<".">> /\ n # <<".", ".">> /\ "/" \notin Range(n)

Call(fn, on, arg) == [fn |-> fn, on |-> on, arg |-> arg]

\* FileSystemDirectoryHandle.getDirectoryHandle(name, {create})
GetDirectoryHandle(f, parent, name, create, bad) ==
    LET target == Append(parent, name)
        call == <<Call("getDirectoryHandle", parent, name)>>
    IN  IF target \in bad \/ ~ValidName(name)
        THEN [ok |-> FALSE, handle |-> parent, fs |-> f, calls |-> call]
        ELSE IF IsDir(f, target)
        THEN [ok |-> TRUE, handle |-> target, fs |-> f, calls |-> call]
        ELSE IF ~Exists(f, target) /\ create
        THEN [ok |-> TRUE, handle |-> target,
              fs |-> [f EXCEPT !.dirs = @ \cup {target}], calls |-> call]
        ELSE [ok |-> FALSE, handle |-> parent, fs |-> f, calls |-> call]

\* FileSystemDirectoryHandle.getFileHandle(name, {create})
GetFileHandle(f, parent, name, create, bad) ==
    LET target == Append(parent, name)
        call == <<Call("getFileHandle", parent, name)>>
    IN  IF target \in bad \/ ~ValidName(name)
        THEN [ok |-> FALSE, handle |-> parent, fs |-> f, calls |-> call]
        ELSE IF IsFile(f, target)
        THEN [ok |-> TRUE, handle |-> target, fs |-> f, calls |-> call]
        ELSE IF ~Exists(f, target) /\ create
        THEN [ok |-> TRUE, handle |-> target,
              fs |-> [f EXCEPT !.files = @ \cup {target}], calls |-> call]
        ELSE [ok |-> FALSE, handle |-> parent, fs |-> f, calls |-> call]

\* FileSystemDirectoryHandle.removeEntry(name, {recursive: true})
RemoveEntry(f, parent, name, bad) ==
    LET target == Append(parent, name)
        call == <<Call("removeEntry", parent, name)>>
        keep(S) == {p \in S : ~IsPrefix(target, p)}
    IN  IF target \in bad \/ ~ValidName(name) \/ ~Exists(f, target)
        THEN [ok |-> FALSE, fs |-> f, calls |-> call]
        ELSE [ok |-> TRUE,
              fs |-> [files |-> keep(f.files), dirs |-> keep(f.dirs)],
              calls |-> call]

(***************************************************************************)
(* The permission broker.  Its answers to one entry's query and request    *)
(* are inputs of the operation that wraps the entry.                       *)
(***************************************************************************)
PermissionStates == {"granted", "denied", "prompt"}
Modes == {"read", "readwrite"}
Brokers == [query : PermissionStates, request : PermissionStates]

Granted == [query |-> "granted", request |-> "granted"]
\* mode: FileSystemPermissionMode = 'read'
DefaultMode == "read"

\* Variant: the request is issued whatever the query answered
VerifyPermissionAlwaysRequests(handle, mode, broker) ==
    [ok |-> broker.query = "granted" \/ broker.request = "granted",
     calls |-> <<Call("queryPermission", handle, <<mode>>),
                 Call("requestPermission", handle, <<mode>>)>>]

\* WebFsHandle._verifyPermission(mode)
VerifyPermission(handle, mode, broker) ==
    LET q == <<Call("queryPermission", handle, <<mode>>)>>
        r == <<Call("requestPermission", handle, <<mode>>)>>
    IN  IF broker.query = "granted"
        THEN [ok |-> TRUE, calls |-> q]
        ELSE IF broker.request = "granted"
        THEN [ok |-> TRUE, calls |-> q \o r]
        ELSE [ok |-> FALSE, calls |-> q \o r]

\* The result of WebFsFileHandle.create / WebFsDirectoryHandle.create:
\* no node (undefined) or one node wrapping the handle
Undefined == <<>>
Node(type, handle) == <<[type |-> type, handle |-> handle]>>

\* WebFsFileHandle.create(handle, mode)
FileCreate(handle, mode, broker) ==
    LET v == VerifyPermission(handle, mode, broker)
    IN  [value |-> IF v.ok THEN Node("file", handle) ELSE Undefined,
         calls |-> v.calls]

\* WebFsDirectoryHandle.create(handle, mode)
DirCreate(handle, mode, broker) ==
    LET v == VerifyPermission(handle, mode, broker)
    IN  [value |-> IF v.ok THEN Node("directory", handle) ELSE Undefined,
         calls |-> v.calls]

(***************************************************************************)
(* path.resolve(p).split(path.sep).slice(1), with the resolution root "/"  *)
(***************************************************************************)
RECURSIVE Normalize(_, _)
Normalize(segs, acc) ==
    IF segs = <<>> THEN acc
    ELSE LET s == Head(segs)
         IN  IF s = <<>> \/ s = <<".">> THEN Normalize(Tail(segs), acc)
             ELSE IF s = <<".", ".">>
                  THEN Normalize(Tail(segs), IF acc = <<>> THEN acc ELSE Front(acc))
                  ELSE Normalize(Tail(segs), Append(acc, s))

\* Variant: the root marker is not dropped: slice(1) is missing
ResolveNamesKeepsRoot(p) == Split(SEP \o Join(Normalize(Split(p), <<>>)))

ResolveNames(p) == Tail(Split(SEP \o Join(Normalize(Split(p), <<>>))))

\* WebFsDirectoryHandle._dirByPath(directoryNames, create): the loop from
\* the directory `handle` over the remaining names
RECURSIVE DirByPathFrom(_, _, _, _, _, _)
DirByPathFrom(f, handle, directoryNames, create, bad, calls) ==
    IF directoryNames = <<>>
    THEN [ok |-> TRUE, handle |-> handle, fs |-> f, calls |-> calls]
    ELSE LET r == GetDirectoryHandle(f, handle, Head(directoryNames), create, bad)
         IN  IF r.ok
             THEN DirByPathFrom(r.fs, r.handle, Tail(directoryNames), create,
                                bad, calls \o r.calls)
             ELSE [ok |-> FALSE, handle |-> handle, fs |-> r.fs,
                   calls |-> calls \o r.calls]

\* Variant: a walk that fails undoes the directories it created
DirByPathRollsBack(f, directoryNames, create, bad) ==
    LET d == DirByPathFrom(f, ROOT, directoryNames, create, bad, <<>>)
    IN  IF d.ok THEN d ELSE [d EXCEPT !.fs = f]

DirByPath(f, directoryNames, create, bad) ==
    DirByPathFrom(f, ROOT, directoryNames, create, bad, <<>>)

\* WebFsDirectoryHandle.file(filePath, {create, mode})
File(f, filePath, create, mode, bad, broker) ==
    LET names == ResolveNames(filePath)
        directoryNames == Front(names)
        fileName == Last(names)
    IN  IF fileName = <<>>
        THEN [value |-> Undefined, fs |-> f, calls |-> <<>>]
        ELSE LET d == DirByPath(f, directoryNames, create, bad)
             IN  IF ~d.ok
                 THEN [value |-> Undefined, fs |-> d.fs, calls |-> d.calls]
                 ELSE LET g == GetFileHandle(d.fs, d.handle, fileName, create, bad)
                      IN  IF ~g.ok
                          THEN [value |-> Undefined, fs |-> g.fs,
                                calls |-> d.calls \o g.calls]
                          ELSE LET c == FileCreate(g.handle, mode, broker)
                               IN  [value |-> c.value, fs |-> g.fs,
                                    calls |-> d.calls \o g.calls \o c.calls]

\* WebFsDirectoryHandle.dir(dirPath, {create, mode})
Dir(f, dirPath, create, mode, bad, broker) ==
    LET directoryNames == ResolveNames(dirPath)
    IN  IF Len(directoryNames) = 1 /\ directoryNames[1] = <<>>
        THEN [value |-> Undefined, fs |-> f, calls |-> <<>>]
        ELSE LET d == DirByPath(f, directoryNames, create, bad)
             IN  IF ~d.ok
                 THEN [value |-> Undefined, fs |-> d.fs, calls |-> d.calls]
                 ELSE LET c == DirCreate(d.handle, mode, broker)
                      IN  [value |-> c.value, fs |-> d.fs,
                           calls |-> d.calls \o c.calls]

\* WebFsDirectoryHandle.remove(entryPath)
Remove(f, entryPath, bad) ==
    LET names == ResolveNames(entryPath)
        entryNames == Front(names)
        lastEntryName == Last(names)
    IN  IF lastEntryName = <<>>
        THEN [value |-> FALSE, fs |-> f, calls |-> <<>>]
        ELSE LET d == DirByPath(f, entryNames, FALSE, bad)
             IN  IF ~d.ok
                 THEN [value |-> FALSE, fs |-> d.fs, calls |-> d.calls]
                 ELSE LET r == RemoveEntry(d.fs, d.handle, entryPath, bad)
                      IN  [value |-> r.ok, fs |-> r.fs,
                           calls |-> d.calls \o r.calls]

(***************************************************************************)
(* The pattern matcher (micromatch.isMatch), by its contract: a total test *)
(* of a candidate string against a glob.  Both are split on "/"; a segment *)
(* that is exactly "**" matches zero or more whole segments, "*" matches   *)
(* any run of characters inside one segment, any other character matches   *)
(* itself.                                                                 *)
(***************************************************************************)
GLOBSTAR == <<"*", "*">>

RECURSIVE MatchSegment(_, _)
MatchSegment(s, p) ==
    IF p = <<>> THEN s = <<>>
    ELSE IF Head(p) = "*"
    THEN MatchSegment(s, Tail(p)) \/ (s # <<>> /\ MatchSegment(Tail(s), p))
    ELSE s # <<>> /\ Head(s) = Head(p) /\ MatchSegment(Tail(s), Tail(p))

RECURSIVE MatchSegments(_, _)
MatchSegments(ss, ps) ==
    IF ps = <<>> THEN ss = <<>>
    ELSE IF Head(ps) = GLOBSTAR
    THEN MatchSegments(ss, Tail(ps)) \/ (ss # <<>> /\ MatchSegments(Tail(ss), ps))
    ELSE ss # <<>> /\ MatchSegment(Head(ss), Head(ps))
                   /\ MatchSegments(Tail(ss), Tail(ps))

IsMatch(str, glob) == MatchSegments(Split(str), Split(glob))

(***************************************************************************)
(* Filtering, the Tree Builder and the Glob Engine.                        *)
(***************************************************************************)
\* toFilterType(file, dir)
ToFilterType(file, dir) ==
    IF file /\ dir THEN "all"
    ELSE IF ~file /\ ~dir THEN "none"
    ELSE IF file THEN "file" ELSE "dir"

\* Variant: the filter lets every entry through
FilterEntryKeepsAll(f, type, entries) == entries

\* WebFsDirectoryHandle._filterEntry(type, entries)
FilterEntry(f, type, entries) ==
    IF type = "none" THEN <<>>
    ELSE SelectSeq(entries,
            LAMBDA e : \/ type = "all"
                       \/ IF type = "file" THEN KindOf(f, e) = "file"
                                           ELSE KindOf(f, e) = "directory")

\* Concatenation of a sequence of sequences
RECURSIVE Flatten(_)
Flatten(ss) == IF ss = <<>> THEN <<>> ELSE Head(ss) \o Flatten(Tail(ss))

\* Variant: the prefix grows by the name without its separator
ExtendPathNoSeparator(path, name) == path \o name

\* `${path}${dir.name}/`
ExtendPath(path, name) == path \o name \o SEP

\* the last-segment test of _glob: the files of cd whose prefixed name
\* matches the whole pattern
MatchedFiles(files, path, patterns) ==
    SelectSeq(files, LAMBDA e : IsMatch(path \o NameOf(e), Join(patterns)))

\* the literal/wildcard branch of _glob: the subdirectories whose bare name
\* matches the current segment
MatchedDirs(dirs, currentPattern) ==
    SelectSeq(dirs, LAMBDA e : IsMatch(NameOf(e), currentPattern))

\* WebFsDirectoryHandle._glob(patterns, patternIndex, cd, path), with
\* patternIndex counted from 0 as in the code.  files are the handles found,
\* calls the enumerations made, in order.
RECURSIVE Glob_(_, _, _, _, _)

\* Variant: the files of the current directory are not tried under "**"
GlobstarZeroLevelsSkipped(f, patterns, cd, path) ==
    [files |-> <<>>, calls |-> <<>>]

\* Variant: what the last segment finds at the current directory is
\* pushed twice
GlobstarZeroLevelsTwice(f, patterns, cd, path) ==
    LET own == Glob_(f, patterns, Len(patterns) - 1, cd, path)
    IN  [files |-> own.files \o own.files, calls |-> own.calls]

\* the first half of the "**" branch: the last segment tried at the
\* current directory, so that "**" also matches zero levels
GlobstarZeroLevels(f, patterns, cd, path) ==
    Glob_(f, patterns, Len(patterns) - 1, cd, path)

Glob_(f, patterns, patternIndex, cd, path) ==
    LET entries == Values(f, cd)
        here == <<Call("values", cd, <<>>)>>
        currentPattern == patterns[patternIndex + 1]
        isLast == patternIndex = Len(patterns) - 1
        dirs == FilterEntry(f, "dir", entries)
        files == FilterEntry(f, "file", entries)
    IN  IF isLast
        THEN [files |-> MatchedFiles(files, path, patterns), calls |-> here]
        ELSE IF currentPattern = GLOBSTAR
        THEN LET own == GlobstarZeroLevels(f, patterns, cd, path)
                 sub == <<>> \o [i \in 1..Len(dirs) |->
                           Glob_(f, patterns, patternIndex, dirs[i],
                                 ExtendPath(path, NameOf(dirs[i])))]
             IN  [files |-> own.files
                              \o Flatten([i \in 1..Len(dirs) |-> sub[i].files]),
                  calls |-> here \o own.calls
                              \o Flatten([i \in 1..Len(dirs) |-> sub[i].calls])]
        ELSE LET matchedDirs == MatchedDirs(dirs, currentPattern)
                 sub == <<>> \o [i \in 1..Len(matchedDirs) |->
                           Glob_(f, patterns, patternIndex + 1, matchedDirs[i],
                                 ExtendPath(path, NameOf(matchedDirs[i])))]
             IN  [files |-> Flatten([i \in 1..Len(matchedDirs) |-> sub[i].files]),
                  calls |-> here
                              \o Flatten([i \in 1..Len(matchedDirs) |-> sub[i].calls])]

\* The calls made until the host raises: all of them when no call addresses
\* a faulty entry, else those up to and including the first that does
UntilFault(calls, bad) ==
    LET hits == {i \in 1..Len(calls) : calls[i].on \in bad}
    IN  IF hits = {} THEN calls
        ELSE SubSeq(calls, 1, CHOOSE i \in hits : \A j \in hits : i <= j)

Faulted(calls, bad) == \E i \in 1..Len(calls) : calls[i].on \in bad

\* Promise.all over WebFs*Handle.create(entry) followed by the filter that
\* drops undefined; brokerOf gives the broker's answers for each entry
CreateAll(f, entries, brokerOf) ==
    LET made == [i \in 1..Len(entries) |->
                   IF KindOf(f, entries[i]) = "file"
                   THEN FileCreate(entries[i], DefaultMode, brokerOf[entries[i]])
                   ELSE DirCreate(entries[i], DefaultMode, brokerOf[entries[i]])]
    IN  [value |-> Flatten([i \in 1..Len(entries) |-> made[i].value]),
         calls |-> Flatten([i \in 1..Len(entries) |-> made[i].calls])]

\* WebFsDirectoryHandle.glob(pattern).  No handler stands between the host
\* and the caller: an enumeration that raises rejects the call.
Glob(f, pattern, bad, brokerOf) ==
    IF pattern = <<>>
    THEN [out |-> "ok", value |-> <<>>, calls |-> <<>>]
    ELSE LET g == Glob_(f, Split(pattern), 0, ROOT, <<>>)
         IN  IF Faulted(g.calls, bad)
             THEN [out |-> "throw", value |-> <<>>,
                   calls |-> UntilFault(g.calls, bad)]
             ELSE LET c == CreateAll(f, g.files, brokerOf)
                  IN  [out |-> "ok", value |-> c.value,
                       calls |-> g.calls \o c.calls]

\* A node of WebFsTreeResult: children undefined (materialized = FALSE) or
\* a sequence of nodes
TreeNode(handle, materialized, children) ==
    [handle |-> handle, materialized |-> materialized, children |-> children]

\* Variant: the ceiling is one level too deep
AtCeilingOffByOne(depth, maxDepth) == depth = maxDepth + 1

\* Variant: the ceiling is reached at or beyond maxDepth
AtCeilingOrBeyond(depth, maxDepth) == depth >= maxDepth

\* depth === maxDepth
AtCeiling(depth, maxDepth) == depth = maxDepth

\* WebFsDirectoryHandle._tree(type, maxDepth, depth, cd)
RECURSIVE Tree_(_, _, _, _, _)
Tree_(f, type, maxDepth, depth, cd) ==
    IF type = "none" THEN <<>>
    ELSE LET filteredEntries == FilterEntry(f, type, Values(f, cd))
         IN  [i \in 1..Len(filteredEntries) |->
                LET entry == filteredEntries[i]
                IN  IF KindOf(f, entry) = "file" \/ AtCeiling(depth, maxDepth)
                    THEN TreeNode(entry, FALSE, <<>>)
                    ELSE TreeNode(entry, TRUE,
                                  Tree_(f, type, maxDepth, depth + 1, entry))]

\* The enumerations _tree makes: one of cd unless the filter is none, then
\* those of each child it recurses into, in order
RECURSIVE TreeCalls(_, _, _)
TreeCalls(type, cd, list) ==
    IF type = "none" THEN <<>>
    ELSE <<Call("values", cd, <<>>)>>
           \o Flatten([i \in 1..Len(list) |->
                         IF list[i].materialized
                         THEN TreeCalls(type, list[i].handle, list[i].children)
                         ELSE <<>>])

\* Variant: a node's entry is emitted after its children's
RECURSIVE FlatChildrenFirst(_)
FlatChildrenFirst(tree) ==
    Flatten([i \in 1..Len(tree) |->
               (IF tree[i].materialized
                THEN FlatChildrenFirst(tree[i].children) ELSE <<>>)
                 \o <<tree[i].handle>>])

\* WebFsDirectoryHandle._flat(tree)
RECURSIVE Flat(_)
Flat(tree) ==
    Flatten([i \in 1..Len(tree) |->
               <<tree[i].handle>>
                 \o (IF tree[i].materialized THEN Flat(tree[i].children) ELSE <<>>)])

\* WebFsDirectoryHandle.tree({file, dir, depth})
Tree(f, file, dir, depth, bad) ==
    LET treeResult == Tree_(f, ToFilterType(file, dir), depth, 1, ROOT)
        calls == TreeCalls(ToFilterType(file, dir), ROOT, treeResult)
    IN  IF Faulted(calls, bad)
        THEN [out |-> "throw", value |-> <<>>, calls |-> UntilFault(calls, bad)]
        ELSE [out |-> "ok",
              value |-> [handle |-> ROOT, children |-> treeResult],
              calls |-> calls]

\* WebFsDirectoryHandle.names({file, dir, depth})
NamesOf(f, file, dir, depth, bad) ==
    IF ~file /\ ~dir
    THEN [out |-> "ok", value |-> <<>>, calls |-> <<>>]
    ELSE LET tree == Tree_(f, ToFilterType(file, dir), depth, 1, ROOT)
             calls == TreeCalls(ToFilterType(file, dir), ROOT, tree)
             flat == Flat(tree)
         IN  IF Faulted(calls, bad)
             THEN [out |-> "throw", value |-> <<>>,
                   calls |-> UntilFault(calls, bad)]
             ELSE [out |-> "ok",
                   value |-> [i \in 1..Len(flat) |-> NameOf(flat[i])],
                   calls |-> calls]

\* WebFsDirectoryHandle.list({file, dir, depth})
List(f, file, dir, depth, bad, brokerOf) ==
    IF ~file /\ ~dir
    THEN [out |-> "ok", value |-> <<>>, calls |-> <<>>]
    ELSE LET tree == Tree_(f, ToFilterType(file, dir), depth, 1, ROOT)
             calls == TreeCalls(ToFilterType(file, dir), ROOT, tree)
         IN  IF Faulted(calls, bad)
             THEN [out |-> "throw", value |-> <<>>,
                   calls |-> UntilFault(calls, bad)]
             ELSE LET c == CreateAll(f, Flat(tree), brokerOf)
                  IN  [out |-> "ok", value |-> c.value,
                       calls |-> calls \o c.calls]

\* The box-drawing characters of the rendering, written in ASCII: TEE is
\* U+251C, ELBOW is U+2514, DASH is U+2500 and BAR is U+2502
TEE == "+"
ELBOW == "L"
DASH == "-"
BAR == "|"
NEWLINE == "\n"

\* index < lastIndex ? TEE DASH : ELBOW DASH
Connector(index, lastIndex) ==
    IF index < lastIndex THEN <<TEE, DASH>> ELSE <<ELBOW, DASH>>

\* Variant: the lines below a directory always continue with BAR
InnerPrefixAlwaysBar(index, lastIndex, i) ==
    IF i = 0 THEN Connector(index, lastIndex) ELSE <<BAR, " ">>

\* The prefix _toString gives line i of the lines of a directory it expanded
InnerPrefix(index, lastIndex, i) ==
    IF index = lastIndex
    THEN (IF i = 0 THEN <<ELBOW, DASH>> ELSE <<" ", " ">>)
    ELSE (IF i = 0 THEN <<TEE, DASH>> ELSE <<BAR, " ">>)

\* WebFsDirectoryHandle._toString(type, maxDepth, depth, cd): the lines and
\* the enumerations made; index counts from 0 as in the source
RECURSIVE ToString_(_, _, _, _, _)
ToString_(f, type, maxDepth, depth, cd) ==
    IF type = "none"
    THEN [lines |-> <<NameOf(cd) \o <<"/">>>>, calls |-> <<>>]
    ELSE LET filteredEntries == FilterEntry(f, type, Values(f, cd))
             lastIndex == Len(filteredEntries) - 1
             part == <<>> \o [k \in 1..Len(filteredEntries) |->
               LET entry == filteredEntries[k]
                   index == k - 1
                   prefix == Connector(index, lastIndex)
               IN  IF KindOf(f, entry) = "file"
                   THEN [lines |-> <<prefix \o <<" ">> \o NameOf(entry)>>,
                         calls |-> <<>>]
                   ELSE IF depth = maxDepth
                   THEN [lines |-> <<prefix \o <<" ">> \o NameOf(entry) \o <<"/">>>>,
                         calls |-> <<>>]
                   ELSE LET inner == ToString_(f, type, maxDepth, depth + 1, entry)
                        IN  [lines |->
                               [j \in 1..Len(inner.lines) |->
                                  InnerPrefix(index, lastIndex, j - 1)
                                    \o <<" ">> \o inner.lines[j]],
                             calls |-> inner.calls]]
         IN  [lines |-> <<NameOf(cd) \o <<"/">>>>
                          \o Flatten([k \in 1..Len(part) |-> part[k].lines]),
              calls |-> <<Call("values", cd, <<>>)>>
                          \o Flatten([k \in 1..Len(part) |-> part[k].calls])]

\* lines.join('\n')
RECURSIVE JoinLines(_)
JoinLines(lines) ==
    IF lines = <<>> THEN <<>>
    ELSE IF Len(lines) = 1 THEN lines[1]
    ELSE lines[1] \o <<NEWLINE>> \o JoinLines(Tail(lines))

\* WebFsDirectoryHandle.treeString({file, dir, depth}).  No handler stands
\* between the host and the caller.
TreeString(f, file, dir, depth, bad) ==
    LET t == ToString_(f, ToFilterType(file, dir), depth, 1, ROOT)
    IN  IF Faulted(t.calls, bad)
        THEN [out |-> "throw", value |-> <<>>, calls |-> UntilFault(t.calls, bad)]
        ELSE [out |-> "ok", value |-> JoinLines(t.lines), calls |-> t.calls]

(***************************************************************************)
(* Inputs.                                                                 *)
(***************************************************************************)
\* Path strings: up to MaxPathSegs names, or up to two segments that may
\* also be ".", ".." or empty
PathSegs == Names \cup {<<".">>, <<".", ".">>, <<>>}
PathInputs ==
    {Join(s) : s \in SeqsUpTo(Names, MaxPathSegs)}
        \cup {Join(s) : s \in SeqsUpTo(PathSegs, 2)}

\* Patterns: the empty pattern, and up to MaxPatSegs segments joined by "/",
\* each a name, "*" or "**"
PatSegs == Names \cup {<<"*">>, GLOBSTAR}
PatternInputs == {<<>>} \cup {Join(s) : s \in SeqsUpTo(PatSegs, MaxPatSegs)}

\* The depth option, a negative one and 0 among them
DepthInputs == -1..MaxOptDepth

\* The broker's answers for each of the entries an operation wraps: read
\* permission is granted at once for all of them, or asked for and refused
\* for one of them
Refusing == [query |-> "prompt", request |-> "denied"]
AllGranted(f) == [e \in Entries(f) |-> Granted]
OneRefused(f, x) == [e \in Entries(f) |-> IF e = x THEN Refusing ELSE Granted]
RefusedBy(brokerOf) ==
    {e \in DOMAIN brokerOf :
        ~VerifyPermission(e, DefaultMode, brokerOf[e]).ok}

\* The entries the host calls of a run address
Addressed(calls) ==
    {IF c.fn = "values" THEN c.on ELSE Append(c.on, c.arg) :
        c \in {x \in Range(calls) :
                 x.fn \in {"values", "getDirectoryHandle", "getFileHandle",
                           "removeEntry"}}}

\* The host faults on no entry, or on one of the entries the operation
\* addresses (a fault on any other entry is never observed)
Faults(calls) == {{}} \cup {{p} : p \in Addressed(calls)}

\* The broker's answers matter only to a run that reaches the permission check
BrokersFor(calls) ==
    IF \E c \in Range(calls) : c.fn = "queryPermission" THEN Brokers ELSE {Granted}

\* The environments of one search or listing, given its run `clean` in a
\* host that neither faults nor refuses: that one, those in which the host
\* faults on one entry the run addresses, and those in which the broker
\* refuses one entry the run wraps
Environments(clean) ==
    {[bad |-> {}, brokerOf |-> AllGranted(fs)]}
      \cup {[bad |-> {p}, brokerOf |-> AllGranted(fs)] : p \in Addressed(clean.calls)}
      \cup {[bad |-> {}, brokerOf |-> OneRefused(fs, clean.value[i].handle)] :
               i \in 1..Len(clean.value)}

Bounded(f) == Cardinality(Entries(f)) <= MaxEntries

\* The directory trees of at most n entries and depth MaxTreeDepth: the
\* trees a picked directory may hold
RECURSIVE Trees(_)
Trees(n) ==
    IF n = 0 THEN {EmptyFs}
    ELSE LET smaller == Trees(n - 1)
             free(t) == {p \in SeqsUpTo(Names, MaxTreeDepth) :
                           ~Exists(t, p) /\ IsDir(t, Front(p))}
         IN  smaller
               \cup UNION {{[t EXCEPT !.files = @ \cup {p}] : p \in free(t)} :
                              t \in smaller}
               \cup UNION {{[t EXCEPT !.dirs = @ \cup {p}] : p \in free(t)} :
                              t \in smaller}

(***************************************************************************)
(* The file a file node wraps and its writable stream.  wr.content is the  *)
(* content a read observes.  A stream works on a swap copy (wr.swap) at a  *)
(* position (wr.pos); the steps asked of it wait in wr.queue and the host  *)
(* runs them one by one, in order, after the call that asked for them has  *)
(* gone on; close replaces the content by the swap copy.  A step on which  *)
(* the host faults breaks the stream (wr.failed): the steps still waiting  *)
(* are dropped and the content stays as it was.                            *)
(***************************************************************************)
Data == {<<"x">>, <<"y">>}

NoStream(content) ==
    [content |-> content, swap |-> <<>>, pos |-> 0, queue |-> <<>>,
     failed |-> FALSE]

Step(fn, arg) == [fn |-> fn, arg |-> arg]

\* FileSystemWritableFileStream: the effect of one step that succeeds
RunStep(w, step) ==
    IF step.fn = "seek" THEN [w EXCEPT !.pos = step.arg]
    ELSE IF step.fn = "write"
    THEN [w EXCEPT !.swap = SubSeq(w.swap, 1, w.pos) \o step.arg
                              \o SubSeq(w.swap, w.pos + Len(step.arg) + 1,
                                        Len(w.swap)),
                   !.pos = w.pos + Len(step.arg)]
    ELSE [w EXCEPT !.content = w.swap]

\* WebFsFileHandle._write({data, append}).  fault names the awaited host
\* call that rejects ("none": neither).  seek, write and close are asked of
\* the stream and not awaited: the call returns true with the steps waiting.
Write_(w, data, append, fault) ==
    IF fault = "createWritable" \/ (append /\ fault = "getFile")
    THEN [value |-> FALSE, wr |-> NoStream(w.content)]
    ELSE [value |-> TRUE,
          wr |-> [content |-> w.content,
                  swap |-> IF append THEN w.content ELSE <<>>,
                  pos |-> 0,
                  queue |-> (IF append
                             THEN <<Step("seek", Len(w.content))>> ELSE <<>>)
                              \o <<Step("write", data), Step("close", <<>>)>>,
                  failed |-> FALSE]]

(***************************************************************************)
(* The handle store.  hs.file and hs.directory are the two key-value       *)
(* stores, from an id to what is stored under it (Undefined: nothing).     *)
(* The store takes effect in the order of the calls made to it, so a write *)
(* that is not awaited is in place before the next read unless the store   *)
(* rejects it.  hs.picked records the (store, id) pairs for which a call   *)
(* with persistence returned a node for a handle the picker gave, and      *)
(* which no unmount has deleted since.                                     *)
(***************************************************************************)
Ids == {"i", "j"}
FileHandles == {<<<<"a">>>>, <<<<"b">>>>}
DirectoryHandles == {<<<<"d">>>>}

EmptyStore ==
    [file |-> [id \in Ids |-> Undefined],
     directory |-> [id \in Ids |-> Undefined],
     picked |-> {}]

\* What the picker resolves to: the handles the user chose (one, or
\* several when multiple), or a rejection when the user cancels (written as
\* the empty choice, which the picker never resolves to)
Cancelled == <<>>
FileChoices(multiple) ==
    {<<h>> : h \in FileHandles}
      \cup (IF multiple
            THEN {c \in FileHandles \X FileHandles : c[1] # c[2]}
            ELSE {})
      \cup {Cancelled}
DirectoryChoices == DirectoryHandles \cup {Cancelled}

\* The answers of the broker for each handle the picker can give
HandleBrokers == [FileHandles \cup DirectoryHandles -> {Granted, Refusing}]

\* The outcomes of the calls a pick makes to the store: all succeed, the
\* read rejects, or the write rejects
StoreFaults == {"none", "get", "set"}

\* WebFsFileHandleList.create(handles, mode)
FileListCreate(handles, mode, brokerOf) ==
    LET made == [i \in 1..Len(handles) |->
                   FileCreate(handles[i], mode, brokerOf[handles[i]])]
    IN  IF \E i \in 1..Len(handles) : made[i].value = Undefined
        THEN Undefined
        ELSE <<[type |-> "fileList",
                handles |-> Flatten([i \in 1..Len(handles) |-> made[i].value])]>>

\* pickFile(options) and pickFiles(options) with options.id = id.  The
\* write to the store is not awaited: the call goes on to wrap the handle
\* whether or not the store accepts it.
PickFiles(h, multiple, id, persistence, choice, fault, brokerOf) ==
    LET wrap(handles) ==
            IF multiple THEN FileListCreate(handles, DefaultMode, brokerOf)
            ELSE FileCreate(handles[1], DefaultMode, brokerOf[handles[1]]).value
    IN  IF persistence /\ fault = "get"
        THEN [value |-> Undefined, picker |-> FALSE, source |-> "none", hs |-> h]
        ELSE IF persistence /\ h.file[id] # Undefined
        THEN [value |-> wrap(h.file[id]), picker |-> FALSE,
              source |-> "store", hs |-> h]
        ELSE IF choice = Cancelled
        THEN [value |-> Undefined, picker |-> TRUE, source |-> "none", hs |-> h]
        ELSE [value |-> wrap(choice), picker |-> TRUE, source |-> "picker",
              hs |-> IF persistence /\ fault # "set"
                     THEN [h EXCEPT !.file[id] = choice] ELSE h]

\* pickDirectory(options) with options.id = id
PickDirectory(h, id, persistence, choice, fault, brokerOf) ==
    IF persistence /\ fault = "get"
    THEN [value |-> Undefined, picker |-> FALSE, source |-> "none", hs |-> h]
    ELSE IF persistence /\ h.directory[id] # Undefined
    THEN [value |-> DirCreate(h.directory[id], DefaultMode,
                              brokerOf[h.directory[id]]).value,
          picker |-> FALSE, source |-> "store", hs |-> h]
    ELSE IF choice = Cancelled
    THEN [value |-> Undefined, picker |-> TRUE, source |-> "none", hs |-> h]
    ELSE [value |-> DirCreate(choice, DefaultMode, brokerOf[choice]).value,
          picker |-> TRUE, source |-> "picker",
          hs |-> IF persistence /\ fault # "set"
                 THEN [h EXCEPT !.directory[id] = choice] ELSE h]

\* The record of the handles given out through the picker with persistence
Picked(h, store, id, persistence, r) ==
    IF persistence /\ r.source = "picker" /\ r.value # Undefined
    THEN [r.hs EXCEPT !.picked = @ \cup {<<store, id>>}]
    ELSE r.hs

Idle == res.op = "none"

Init ==
    /\ fs = EmptyFs
    /\ res = [op |-> "none"]
    /\ wr = NoStream(<<>>)
    /\ hs = EmptyStore

\* The caller takes the result of the finished call
Return ==
    /\ ~Idle
    /\ res' = [op |-> "none"]
    /\ UNCHANGED <<fs, wr, hs>>

FileOp(op, create) ==
    /\ Idle
    /\ UNCHANGED <<wr, hs>>
    /\ \E filePath \in PathInputs :
         \E bad \in Faults(File(fs, filePath, create, DefaultMode, {}, Granted).calls) :
           \E broker \in BrokersFor(File(fs, filePath, create, DefaultMode, bad, Granted).calls) :
               LET r == File(fs, filePath, create, DefaultMode, bad, broker)
               IN  /\ Bounded(r.fs)
                   /\ fs' = r.fs
                   /\ res' = [op |-> op, arg |-> filePath, bad |-> bad,
                              out |-> "ok", value |-> r.value,
                              calls |-> r.calls]

DirOp(op, create) ==
    /\ Idle
    /\ UNCHANGED <<wr, hs>>
    /\ \E dirPath \in PathInputs :
         \E bad \in Faults(Dir(fs, dirPath, create, DefaultMode, {}, Granted).calls) :
           \E broker \in BrokersFor(Dir(fs, dirPath, create, DefaultMode, bad, Granted).calls) :
               LET r == Dir(fs, dirPath, create, DefaultMode, bad, broker)
               IN  /\ Bounded(r.fs)
                   /\ fs' = r.fs
                   /\ res' = [op |-> op, arg |-> dirPath, bad |-> bad,
                              out |-> "ok", value |-> r.value,
                              calls |-> r.calls]

\* file(filePath, options) without create
GetFile == FileOp("file", FALSE)
\* createFile(filePath, options)
CreateFile == FileOp("createFile", TRUE)
\* dir(dirPath, options) without create
GetDir == DirOp("dir", FALSE)
\* createDir(dirPath, options)
CreateDir == DirOp("createDir", TRUE)

\* remove(entryPath)
RemoveOp ==
    /\ Idle
    /\ UNCHANGED <<wr, hs>>
    /\ \E entryPath \in PathInputs :
         \E bad \in Faults(Remove(fs, entryPath, {}).calls) :
           LET r == Remove(fs, entryPath, bad)
           IN  /\ fs' = r.fs
               /\ res' = [op |-> "remove", arg |-> entryPath, bad |-> bad,
                          out |-> "ok", value |-> r.value, calls |-> r.calls]

\* glob(pattern)
GlobOp ==
    /\ Idle
    /\ UNCHANGED <<wr, hs>>
    /\ \E pattern \in PatternInputs :
         \E env \in Environments(Glob(fs, pattern, {}, AllGranted(fs))) :
           LET r == Glob(fs, pattern, env.bad, env.brokerOf)
           IN  /\ res' = [op |-> "glob", arg |-> pattern, bad |-> env.bad,
                          refused |-> RefusedBy(env.brokerOf),
                          out |-> r.out, value |-> r.value, calls |-> r.calls]
               /\ UNCHANGED fs

\* tree(options)
TreeOp ==
    /\ Idle
    /\ UNCHANGED <<wr, hs>>
    /\ \E file \in BOOLEAN, dir \in BOOLEAN, depth \in DepthInputs :
         \E bad \in Faults(Tree(fs, file, dir, depth, {}).calls) :
           LET r == Tree(fs, file, dir, depth, bad)
           IN  /\ res' = [op |-> "tree", file |-> file, dir |-> dir,
                          depth |-> depth, bad |-> bad, out |-> r.out,
                          value |-> r.value, calls |-> r.calls]
               /\ UNCHANGED fs

\* names(options)
NamesOp ==
    /\ Idle
    /\ UNCHANGED <<wr, hs>>
    /\ \E file \in BOOLEAN, dir \in BOOLEAN, depth \in DepthInputs :
         \E bad \in Faults(NamesOf(fs, file, dir, depth, {}).calls) :
           LET r == NamesOf(fs, file, dir, depth, bad)
           IN  /\ res' = [op |-> "names", file |-> file, dir |-> dir,
                          depth |-> depth, bad |-> bad, out |-> r.out,
                          value |-> r.value, calls |-> r.calls]
               /\ UNCHANGED fs

\* list(options)
ListOp ==
    /\ Idle
    /\ UNCHANGED <<wr, hs>>
    /\ \E file \in BOOLEAN, dir \in BOOLEAN, depth \in DepthInputs :
         \E env \in Environments(List(fs, file, dir, depth, {}, AllGranted(fs))) :
           LET r == List(fs, file, dir, depth, env.bad, env.brokerOf)
           IN  /\ res' = [op |-> "list", file |-> file, dir |-> dir,
                          depth |-> depth, bad |-> env.bad,
                          refused |-> RefusedBy(env.brokerOf), out |-> r.out,
                          value |-> r.value, calls |-> r.calls]
               /\ UNCHANGED fs

\* treeString(options)
TreeStringOp ==
    /\ Idle
    /\ UNCHANGED <<wr, hs>>
    /\ \E file \in BOOLEAN, dir \in BOOLEAN, depth \in DepthInputs :
         \E bad \in Faults(TreeString(fs, file, dir, depth, {}).calls) :
           LET r == TreeString(fs, file, dir, depth, bad)
           IN  /\ res' = [op |-> "treeString", file |-> file, dir |-> dir,
                          depth |-> depth, bad |-> bad, out |-> r.out,
                          value |-> r.value, calls |-> r.calls]
               /\ UNCHANGED fs

\* WebFsFileHandle.create(handle, mode) / WebFsDirectoryHandle.create(handle,
\* mode) on an entry of the tree
CreateOp ==
    /\ Idle
    /\ UNCHANGED <<wr, hs>>
    /\ \E handle \in Entries(fs) \cup {ROOT}, mode \in Modes, broker \in Brokers :
         LET r == IF KindOf(fs, handle) = "file"
                  THEN FileCreate(handle, mode, broker)
                  ELSE DirCreate(handle, mode, broker)
         IN  /\ res' = [op |-> "create", handle |-> handle, mode |-> mode,
                        broker |-> broker, out |-> "ok", value |-> r.value,
                        calls |-> r.calls]
             /\ UNCHANGED fs

\* write(data) / append(data) on the file node
WriteCall(op, append) ==
    /\ Idle
    /\ wr.queue = <<>>
    /\ append => Len(wr.content) < MaxContent
    /\ \E data \in Data, fault \in {"none", "createWritable", "getFile"} :
         LET r == Write_(wr, data, append, fault)
         IN  /\ res' = [op |-> op, data |-> data, fault |-> fault,
                        before |-> wr.content, out |-> "ok",
                        value |-> r.value]
             /\ wr' = r.wr
    /\ UNCHANGED <<fs, hs>>

WriteOp == WriteCall("write", FALSE)
AppendOp == WriteCall("append", TRUE)

\* The host runs the next step of the stream, or faults on it
StreamStep ==
    /\ wr.queue # <<>>
    /\ \/ wr' = [RunStep(wr, Head(wr.queue)) EXCEPT !.queue = Tail(wr.queue)]
       \/ wr' = [wr EXCEPT !.queue = <<>>, !.failed = TRUE]
    /\ UNCHANGED <<fs, res, hs>>

\* text() on the file node; no handler stands between the host and the caller
TextOp ==
    /\ Idle
    /\ \E fault \in BOOLEAN :
         res' = IF fault
                THEN [op |-> "text", out |-> "throw", value |-> <<>>]
                ELSE [op |-> "text", out |-> "ok", value |-> wr.content]
    /\ UNCHANGED <<fs, wr, hs>>

PickFilesCall(op, multiple) ==
    /\ Idle
    /\ \E id \in Ids, persistence \in BOOLEAN, choice \in FileChoices(multiple),
          fault \in StoreFaults, brokerOf \in HandleBrokers :
         LET r == PickFiles(hs, multiple, id, persistence, choice, fault, brokerOf)
         IN  /\ res' = [op |-> op, id |-> id, persistence |-> persistence,
                        fault |-> fault, picker |-> r.picker,
                        source |-> r.source, out |-> "ok", value |-> r.value]
             /\ hs' = Picked(hs, "file", id, persistence, r)
    /\ UNCHANGED <<fs, wr>>

\* pickFile(options)
PickFileOp == PickFilesCall("pickFile", FALSE)
\* pickFiles(options)
PickFilesOp == PickFilesCall("pickFiles", TRUE)

\* pickDirectory(options)
PickDirectoryOp ==
    /\ Idle
    /\ \E id \in Ids, persistence \in BOOLEAN, choice \in DirectoryChoices,
          fault \in StoreFaults, brokerOf \in HandleBrokers :
         LET r == PickDirectory(hs, id, persistence, choice, fault, brokerOf)
         IN  /\ res' = [op |-> "pickDirectory", id |-> id,
                        persistence |-> persistence, fault |-> fault,
                        picker |-> r.picker, source |-> r.source,
                        out |-> "ok", value |-> r.value]
             /\ hs' = Picked(hs, "directory", id, persistence, r)
    /\ UNCHANGED <<fs, wr>>

\* unmountFile(id) / unmountDirectory(id): the deletion is awaited and no
\* handler stands between the store and the caller
UnmountCall(op, store) ==
    /\ Idle
    /\ \E id \in Ids, fault \in BOOLEAN :
         /\ res' = [op |-> op, id |-> id,
                    out |-> IF fault THEN "throw" ELSE "ok", value |-> <<>>]
         /\ hs' = IF fault THEN hs
                  ELSE [hs EXCEPT ![store][id] = Undefined,
                                  !.picked = @ \ {<<store, id>>}]
    /\ UNCHANGED <<fs, wr>>

UnmountFileOp == UnmountCall("unmountFile", "file")
UnmountDirectoryOp == UnmountCall("unmountDirectory", "directory")

\* The operations that resolve a path, and the construction of a node,
\* starting from an empty directory
Next ==
    \/ GetFile
    \/ CreateFile
    \/ GetDir
    \/ CreateDir
    \/ RemoveOp
    \/ CreateOp
    \/ Return

Spec == Init /\ [][Next]_vars

\* The operations that search and list, over any static tree
InitQuery ==
    /\ fs \in Trees(MaxTreeEntries)
    /\ res = [op |-> "none"]
    /\ wr = NoStream(<<>>)
    /\ hs = EmptyStore

NextQuery ==
    \/ GlobOp
    \/ TreeOp
    \/ NamesOp
    \/ ListOp
    \/ TreeStringOp
    \/ Return

SpecQuery == InitQuery /\ [][NextQuery]_vars

\* Writing and reading the file a file node wraps, one stream at a time
NextWrite ==
    \/ WriteOp
    \/ AppendOp
    \/ StreamStep
    \/ TextOp
    \/ Return

SpecWrite == Init /\ [][NextWrite]_vars

\* Picking with and without persistence, and unmounting
NextPick ==
    \/ PickFileOp
    \/ PickFilesOp
    \/ PickDirectoryOp
    \/ UnmountFileOp
    \/ UnmountDirectoryOp
    \/ Return

SpecPick == Init /\ [][NextPick]_vars
(***************************************************************************)
(* Properties of the Glob Engine (SpecQuery).                              *)
(***************************************************************************)
\* The handles the nodes of a result wrap
HandleSet(nodes) == {nodes[i].handle : i \in 1..Len(nodes)}

\* The "/"-joined path of an entry, relative to the search root
RelativePath(p) == Join(p)

HasGlobstar(pattern) == GLOBSTAR \in Range(Split(pattern))

\* A glob call that ran in a host that did not fault
GlobRan == res.op = "glob" /\ res.bad = {}

\* C1: for a non-empty pattern without a "**" segment, read permission
\* being granted for all files, glob returns exactly the files of the tree
\* whose "/"-joined relative path matches the pattern.
C1_GlobExactWithoutGlobstar ==
    (GlobRan /\ res.arg # <<>> /\ ~HasGlobstar(res.arg) /\ res.refused = {})
        => /\ res.out = "ok"
           /\ HandleSet(res.value)
                = {p \in fs.files : IsMatch(RelativePath(p), res.arg)}

\* C1 witness: a two-segment pattern without "**" found a nested file and
\* left another file of the tree out
C1_Witness ==
    /\ GlobRan /\ ~HasGlobstar(res.arg) /\ res.refused = {}
    /\ Len(Split(res.arg)) = 2
    /\ \E p \in HandleSet(res.value) : Len(p) = 2
    /\ fs.files \ HandleSet(res.value) # {}

\* C2 (as claimed): for a pattern with a "**" segment at any position, glob
\* returns exactly the files whose relative path matches the whole pattern,
\* "**" standing for zero or more directory levels.
C2_GlobExactWithGlobstar ==
    (GlobRan /\ HasGlobstar(res.arg) /\ res.refused = {})
        => /\ res.out = "ok"
           /\ HandleSet(res.value)
                = {p \in fs.files : IsMatch(RelativePath(p), res.arg)}

RECURSIVE NodesAt(_, _)
NodesAt(list, distance) ==
    UNION {{<<distance, list[i]>>}
             \cup (IF list[i].materialized
                   THEN NodesAt(list[i].children, distance + 1) ELSE {}) :
           i \in 1..Len(list)}

TreeRan == res.op = "tree" /\ res.out = "ok"

\* C4: for maxDepth d >= 1 the tree holds no node farther than d from the
\* root, and a node at distance d has no materialized children, whatever
\* the directory contains.
C4_DepthCeiling ==
    (TreeRan /\ res.depth >= 1)
        => \A n \in NodesAt(res.value.children, 1) :
              /\ n[1] <= res.depth
              /\ Len(n[2].handle) = n[1]
              /\ n[1] = res.depth => ~n[2].materialized

\* C4 witness: with d = 1 a non-empty directory is a node without
\* materialized children
C4_Witness ==
    /\ TreeRan /\ res.depth = 1
    /\ \E n \in NodesAt(res.value.children, 1) :
          /\ ~n[2].materialized
          /\ \E p \in Entries(fs) : Len(p) = 2 /\ IsPrefix(n[2].handle, p)

\* Whether the filter keeps an entry
Passes(type, p) ==
    \/ type = "all"
    \/ type = "file" /\ IsFile(fs, p)
    \/ type = "dir" /\ IsDir(fs, p)

\* C5: an entry is in the tree only if it and every directory between it
\* and the root pass the filter, a directory the filter excludes is never
\* enumerated; a directory-only tree holds no file and a file-only tree
\* holds exactly the files directly in the root, whatever the depth.
C5_FilterPrunes ==
    TreeRan =>
        LET type == ToFilterType(res.file, res.dir)
            built == {n[2].handle : n \in NodesAt(res.value.children, 1)}
        IN  /\ \A p \in built :
                  \A k \in 1..Len(p) : Passes(type, SubSeq(p, 1, k))
            /\ \A i \in 1..Len(res.calls) :
                  res.calls[i].on = ROOT \/ Passes(type, res.calls[i].on)
            /\ type = "dir" => built \cap fs.files = {}
            /\ type = "file" => built = {p \in fs.files : Len(p) = 1}

\* C5 witness: a file-only tree of depth 2 over a tree with a file inside
\* a directory, which is not in the result
C5_Witness ==
    /\ TreeRan /\ res.file /\ ~res.dir /\ res.depth = 2
    /\ \E p \in fs.files : Len(p) = 2
    /\ \E p \in fs.files : Len(p) = 1
    /\ res.value.children # <<>>

\* C7 (as claimed): every public operation of the directory node ends with
\* a value, an absence or an empty collection, also when the host faults.
C7_NeverThrows == res.op # "none" => res.out = "ok"

\* The pre-order flattening of a tree: each node's entry, then its
\* children's, siblings in order
RECURSIVE PreOrder(_)
PreOrder(list) ==
    IF list = <<>> THEN <<>>
    ELSE <<Head(list).handle>>
           \o (IF Head(list).materialized
               THEN PreOrder(Head(list).children) ELSE <<>>)
           \o PreOrder(Tail(list))

\* C10: names and list yield the entries of the pre-order flattening of
\* the children of tree with the same options, in the same order (list
\* wraps them, and leaves out those the permission broker refuses).
C10_ListingsAgreeWithTree ==
    (res.op \in {"names", "list"} /\ res.out = "ok")
        => LET flat == PreOrder(Tree(fs, res.file, res.dir, res.depth, {}).value.children)
           IN  IF res.op = "names"
               THEN res.value = [i \in 1..Len(flat) |-> NameOf(flat[i])]
               ELSE [i \in 1..Len(res.value) |-> res.value[i].handle]
                      = SelectSeq(flat, LAMBDA e : e \notin res.refused)

\* C10 witness: a listing of depth 2 with a nested entry followed by an
\* entry of the root
C10_Witness ==
    /\ res.op = "list" /\ res.out = "ok" /\ res.refused = {}
    /\ Len(res.value) = 3
    /\ Len(res.value[2].handle) = 2
    /\ Len(res.value[3].handle) = 1
(***************************************************************************)
(* Properties of the operations that resolve a path, and of the            *)
(* construction of a node (Spec).                                          *)
(***************************************************************************)
PathOps == {"file", "createFile", "dir", "createDir", "remove"}

\* A step that is a call of one of the path operations
PathCall == res.op = "none" /\ res'.op \in PathOps

\* The entry a path addresses: its names after "." and ".." are resolved
AddressedBy(path) == Normalize(Split(path), <<>>)

\* Paths made of names only, one or several
PlainPaths == {Join(q) : q \in SeqsUpTo(Names, MaxPathSegs)}

Without(f, target) ==
    [files |-> {p \in f.files : ~IsPrefix(target, p)},
     dirs |-> {p \in f.dirs : ~IsPrefix(target, p)}]

\* C6 (as claimed): remove with a path of one or several names removes the
\* entry it addresses, with its descendants, and returns true; it returns
\* false and changes nothing when that entry does not exist.
C6_RemoveByPath ==
    [][(PathCall /\ res'.op = "remove" /\ res'.bad = {}
                 /\ res'.arg \in PlainPaths)
          => IF Exists(fs, AddressedBy(res'.arg))
             THEN res'.value = TRUE /\ fs' = Without(fs, AddressedBy(res'.arg))
             ELSE res'.value = FALSE /\ fs' = fs]_vars

\* C8: for a path that resolves to the root itself ("." , "/", "" among
\* them) file, createFile, dir and createDir return no node and remove
\* returns false, no host call is made and the tree is unchanged.
C8_RootPathRejected ==
    [][(PathCall /\ AddressedBy(res'.arg) = ROOT)
          => /\ res'.calls = <<>>
             /\ fs' = fs
             /\ IF res'.op = "remove" THEN res'.value = FALSE
                                      ELSE res'.value = Undefined]_vars

\* C8 witness: createDir(".") returned no node in a tree that has entries
C8_Witness ==
    /\ res.op = "createDir" /\ res.arg = <<".">>
    /\ res.value = Undefined /\ res.calls = <<>>
    /\ Entries(fs) # {}

\* C9: constructing a node queries the permission first, requests it only
\* if the query did not answer granted, and once; the node is returned if
\* and only if the query or the request answered granted, else undefined.
C9_CreateVerifiesPermission ==
    res.op = "create" =>
        LET query == Call("queryPermission", res.handle, <<res.mode>>)
            request == Call("requestPermission", res.handle, <<res.mode>>)
        IN  /\ res.out = "ok"
            /\ res.calls = IF res.broker.query = "granted"
                           THEN <<query>> ELSE <<query, request>>
            /\ res.value # Undefined
                 <=> \/ res.broker.query = "granted"
                     \/ res.broker.request = "granted"
            /\ res.value # Undefined
                 => res.value = Node(KindOf(fs, res.handle), res.handle)

\* C9 witness: the query answered prompt, the request granted, and the
\* node was returned after both calls
C9_Witness ==
    /\ res.op = "create"
    /\ res.broker.query = "prompt" /\ res.broker.request = "granted"
    /\ res.value # Undefined
    /\ Len(res.calls) = 2
(***************************************************************************)
(* Properties of the rendering (SpecQuery).                                *)
(***************************************************************************)
\* The lines of the nodes of a tree, in pre-order: the continuation units
\* of the ancestors, the connector, a blank, the name, and "/" for a
\* directory
RECURSIVE Render(_, _)
Render(list, units) ==
    Flatten([i \in 1..Len(list) |->
       LET last == i = Len(list)
           name == NameOf(list[i].handle)
                     \o (IF IsDir(fs, list[i].handle) THEN <<"/">> ELSE <<>>)
       IN  <<units \o (IF last THEN <<ELBOW, DASH>> ELSE <<TEE, DASH>>)
                   \o <<" ">> \o name>>
             \o (IF list[i].materialized
                 THEN Render(list[i].children,
                             units \o (IF last THEN <<" ", " ", " ">>
                                               ELSE <<BAR, " ", " ">>))
                 ELSE <<>>)])

TreeStringRan == res.op = "treeString" /\ res.out = "ok"

WriteRan == res.op \in {"write", "append"}

\* The content a write or an append is to leave
NewContent == IF res.op = "append" THEN res.before \o res.data ELSE res.data

\* C12 (as claimed): write and append resolve to true only when the steps
\* on the stream have completed and a read observes the new content, and
\* to false when opening, seeking, writing or closing has failed.
C12_WriteResultIsFaithful ==
    WriteRan =>
        /\ res.value = TRUE => wr.queue = <<>> /\ wr.content = NewContent
        /\ wr.failed => res.value = FALSE
(***************************************************************************)
(* Properties of picking with persistence (SpecPick).                      *)
(***************************************************************************)
\* A step that is a call with persistence whose read of the store succeeds
PersistentPick(ops) ==
    /\ res.op = "none" /\ res'.op \in ops
    /\ res'.persistence /\ res'.fault # "get"

\* C13 (as claimed): once a pick with persistence has returned a node for
\* a handle the picker gave, every later pick with the same id and
\* persistence takes the handle from the store and does not open the
\* picker, until the unmount of that id deletes it; for files and for
\* directories.
C13_PickedHandlePersists ==
    [][/\ (PersistentPick({"pickFile", "pickFiles"})
             /\ <<"file", res'.id>> \in hs.picked)
          => ~res'.picker /\ res'.source = "store"
       /\ (PersistentPick({"pickDirectory"})
             /\ <<"directory", res'.id>> \in hs.picked)
          => ~res'.picker /\ res'.source = "store"]_vars
(***************************************************************************)
(* Properties of the order of the Glob Engine's result (SpecQuery).        *)
(***************************************************************************)
\* How many times the run enumerated directory d
Enumerations(d) ==
    Cardinality({i \in 1..Len(res.calls) :
                   res.calls[i].fn = "values" /\ res.calls[i].on = d})

\* C14: for every static tree and every pattern the result of glob holds
\* no file twice; a directory is enumerated once per segment index it is
\* visited under (at most twice, and once without "**"); a directory's own
\* files come before those of the directories below it.
C14_GlobNoDuplicatesInOrder ==
    (GlobRan /\ res.out = "ok" /\ res.arg # <<>>)
        => /\ \A i, j \in 1..Len(res.value) :
                 i # j => res.value[i].handle # res.value[j].handle
           /\ \A d \in fs.dirs \cup {ROOT} :
                 Enumerations(d) <= IF HasGlobstar(res.arg) THEN 2 ELSE 1
           /\ \A i, j \in 1..Len(res.value) :
                 LET di == Front(res.value[i].handle)
                     dj == Front(res.value[j].handle)
                 IN  (IsPrefix(di, dj) /\ di # dj) => i < j

\* C14 witness: under "**" a file of the root precedes a file of a
\* directory that was enumerated under both segment indices
C14_Witness ==
    /\ GlobRan /\ res.out = "ok" /\ HasGlobstar(res.arg)
    /\ Len(res.value) >= 2
    /\ Len(res.value[1].handle) = 1
    /\ Len(res.value[2].handle) = 2
    /\ Enumerations(Front(res.value[2].handle)) = 2
(***************************************************************************)
(* Properties of the Directory-Chain Walker (Spec).                        *)
(***************************************************************************)
\* The child lookups among the host calls of a result
Lookups(calls) ==
    Cardinality({i \in 1..Len(calls) :
                   calls[i].fn \in {"getDirectoryHandle", "getFileHandle"}})

\* Whether the call reached the permission check
Verified(calls) == \E i \in 1..Len(calls) : calls[i].fn = "queryPermission"

\* C15: when createFile or createDir returns undefined because segment k
\* failed (collision, host fault) or because permission on the terminal
\* entry was denied, the entries named by the segments that were walked
\* exist afterwards, as directories before the terminal one, nothing else
\* was created and nothing removed; file and dir without create leave the
\* tree as it was.
C15_WalkHasNoRollback ==
    [][(PathCall /\ res'.op # "remove")
          => IF res'.op \in {"file", "dir"}
             THEN fs' = fs
             ELSE (res'.value = Undefined /\ AddressedBy(res'.arg) # ROOT)
                    => LET names == AddressedBy(res'.arg)
                           walked == IF Verified(res'.calls)
                                     THEN Lookups(res'.calls)
                                     ELSE Lookups(res'.calls) - 1
                           made == {SubSeq(names, 1, m) : m \in 1..walked}
                       IN  /\ fs.files \subseteq fs'.files
                           /\ fs.dirs \subseteq fs'.dirs
                           /\ \A p \in made :
                                 IF Len(p) < Len(names) THEN p \in fs'.dirs
                                 ELSE Exists(fs', p)
                           /\ Entries(fs') \ Entries(fs) \subseteq made]_vars

\* C15 witness: createFile of a three-segment path failed on a host fault
\* at the file, and the two directories before it are in the tree
C15_Witness ==
    /\ res.op = "createFile" /\ res.value = Undefined
    /\ Len(AddressedBy(res.arg)) = 3
    /\ res.bad = {AddressedBy(res.arg)}
    /\ Lookups(res.calls) = 3
    /\ fs.dirs = {SubSeq(AddressedBy(res.arg), 1, 1),
                  SubSeq(AddressedBy(res.arg), 1, 2)}
    /\ fs.files = {}
(***************************************************************************)
(* Properties of a depth option below 1 (SpecQuery).                       *)
(***************************************************************************)
\* The entries that pass the filter together with every directory between
\* them and the root: what a descent without ceiling reaches
Reachable(type) ==
    {p \in Entries(fs) : \A k \in 1..Len(p) : Passes(type, SubSeq(p, 1, k))}

\* The lines of a rendering
Lines(str) == Cardinality({i \in 1..Len(str) : str[i] = NEWLINE}) + 1

\* C16: with a depth option below 1 the ceiling is never reached: tree,
\* names, list and treeString descend through every directory that passes
\* the filter, down to the leaves.
C16_DepthBelowOneIsUnbounded ==
    (res.op \in {"tree", "names", "list", "treeString"}
       /\ res.out = "ok" /\ res.depth < 1)
        => LET type == ToFilterType(res.file, res.dir)
               all == Reachable(type)
           IN  IF res.op = "tree"
               THEN LET nodes == NodesAt(res.value.children, 1)
                    IN  /\ {n[2].handle : n \in nodes} = all
                        /\ \A n \in nodes :
                              IsDir(fs, n[2].handle) => n[2].materialized
               ELSE IF res.op = "names"
               THEN Len(res.value) = Cardinality(all)
               ELSE IF res.op = "list"
               THEN HandleSet(res.value) = all \ res.refused
               ELSE Lines(res.value) = 1 + Cardinality(all)

\* C16 witness: a listing with depth 0 that holds an entry two levels
\* below the root
C16_Witness ==
    /\ res.op = "list" /\ res.out = "ok" /\ res.depth = 0
    /\ \E p \in HandleSet(res.value) : Len(p) = 2
====
